---- MODULE Spec2Model ----
(***************************************************************************)
(* Model of datainspect's per-column streaming profiler (src/src/main.rs): *)
(* infer_type, ColumnStats::new / update / stddev and the ingestion loop   *)
(* of inspect_csv.                                                         *)
(*                                                                         *)
(* A cell value is a sequence of one-character strings.  An f64 is either  *)
(* an exact fraction (finite), +inf, -inf or NaN; finite arithmetic is     *)
(* exact (rounding is not modelled), the non-finite cases follow IEEE 754. *)
(* A square root is carried by its radicand: sqrt is only ever compared,   *)
(* and the comparisons are made on the squares.                            *)
(***************************************************************************)
EXTENDS Integers, Sequences, FiniteSets

(***************************************************************************)
(* Bounds of the model.                                                    *)
(***************************************************************************)
\* largest header length (col_count) tried
MaxCols == 2
\* cells (rows * columns) ingested when the values come from Values
MaxCells == 4
\* cells ingested when the values come from NumericValues
MaxNumericCells == 5
\* cells ingested when the values come from CategoricalValues
MaxCategoricalCells == 5
\* cells ingested when the values come from SparseValues
MaxSparseCells == 4

(***************************************************************************)
(* f64 values.                                                             *)
(***************************************************************************)
AbsInt(n) == IF n < 0 THEN -n ELSE n

RECURSIVE GCD(_, _)
GCD(a, b) == IF b = 0 THEN a ELSE GCD(b, a % b)

LCM(a, b) == (a \div GCD(a, b)) * b

\* the finite value n/d (d > 0), in lowest terms
Fin(n, d) ==
    LET g == GCD(AbsInt(n), d)
    IN  [k |-> "fin", n |-> n \div g, d |-> d \div g]

FromInt(n) == [k |-> "fin", n |-> n, d |-> 1]
Inf(s) == [k |-> "inf", n |-> s, d |-> 1]
NaN == [k |-> "nan", n |-> 0, d |-> 1]
Zero == FromInt(0)

IsFinite(a) == a.k = "fin"
IsNaN(a) == a.k = "nan"
\* -1, 0 or 1; not used on NaN
Sign(a) == IF a.n > 0 THEN 1 ELSE IF a.n < 0 THEN -1 ELSE 0

FNeg(a) == IF IsNaN(a) THEN NaN ELSE [a EXCEPT !.n = -a.n]

FAdd(a, b) ==
    IF IsNaN(a) \/ IsNaN(b) THEN NaN
    ELSE IF a.k = "inf" /\ b.k = "inf" THEN (IF a.n = b.n THEN a ELSE NaN)
    ELSE IF a.k = "inf" THEN a
    ELSE IF b.k = "inf" THEN b
    ELSE LET l == LCM(a.d, b.d)
         IN  Fin(a.n * (l \div a.d) + b.n * (l \div b.d), l)

FSub(a, b) == FAdd(a, FNeg(b))

FMul(a, b) ==
    IF IsNaN(a) \/ IsNaN(b) THEN NaN
    ELSE IF a.k = "inf" \/ b.k = "inf"
         THEN (IF Sign(a) * Sign(b) = 0 THEN NaN ELSE Inf(Sign(a) * Sign(b)))
    ELSE LET g1 == GCD(AbsInt(a.n), b.d)
             g2 == GCD(AbsInt(b.n), a.d)
         IN  Fin((a.n \div g1) * (b.n \div g2), (a.d \div g2) * (b.d \div g1))

\* a / (c as f64) for a count c >= 1
FDivCount(a, c) == FMul(a, Fin(1, c))

FAbs(a) == IF IsNaN(a) THEN NaN ELSE [a EXCEPT !.n = AbsInt(a.n)]

\* a < b; false when either is NaN
FLt(a, b) ==
    /\ ~IsNaN(a)
    /\ ~IsNaN(b)
    /\ IF a.k = "inf" \/ b.k = "inf"
       THEN \/ a.k = "inf" /\ a.n < 0 /\ ~(b.k = "inf" /\ b.n < 0)
            \/ b.k = "inf" /\ b.n > 0 /\ ~(a.k = "inf" /\ a.n > 0)
       ELSE LET l == LCM(a.d, b.d)
            IN  a.n * (l \div a.d) < b.n * (l \div b.d)

\* a <= b; false when either is NaN
FLe(a, b) == ~IsNaN(a) /\ ~IsNaN(b) /\ ~FLt(b, a)

\* f64::min / f64::max: a NaN operand is ignored
FMin(a, b) == IF IsNaN(a) THEN b ELSE IF IsNaN(b) THEN a ELSE IF FLt(b, a) THEN b ELSE a
FMax(a, b) == IF IsNaN(a) THEN b ELSE IF IsNaN(b) THEN a ELSE IF FLt(a, b) THEN b ELSE a

(***************************************************************************)
(* Text: str::parse::<i64>, str::parse::<f64>, eq_ignore_ascii_case.       *)
(***************************************************************************)
Digits == <<"0", "1", "2", "3", "4", "5", "6", "7", "8", "9">>
UpperLetters == <<"A", "B", "C", "D", "E", "F", "G", "H", "I", "J", "K", "L", "M",
                  "N", "O", "P", "Q", "R", "S", "T", "U", "V", "W", "X", "Y", "Z">>
LowerLetters == <<"a", "b", "c", "d", "e", "f", "g", "h", "i", "j", "k", "l", "m",
                  "n", "o", "p", "q", "r", "s", "t", "u", "v", "w", "x", "y", "z">>

IsDigit(c) == \E i \in 1..Len(Digits) : Digits[i] = c
DigitVal(c) == (CHOOSE i \in 1..Len(Digits) : Digits[i] = c) - 1
AllDigits(s) == \A i \in 1..Len(s) : IsDigit(s[i])

RECURSIVE DecimalValue(_)
DecimalValue(s) ==
    IF s = <<>> THEN 0
    ELSE DecimalValue(SubSeq(s, 1, Len(s) - 1)) * 10 + DigitVal(s[Len(s)])

RECURSIVE Pow10(_)
Pow10(e) == IF e = 0 THEN 1 ELSE 10 * Pow10(e - 1)

to_ascii_lowercase(c) ==
    IF \E i \in 1..Len(UpperLetters) : UpperLetters[i] = c
    THEN LowerLetters[CHOOSE i \in 1..Len(UpperLetters) : UpperLetters[i] = c]
    ELSE c

eq_ignore_ascii_case(s, t) ==
    /\ Len(s) = Len(t)
    /\ \A i \in 1..Len(s) : to_ascii_lowercase(s[i]) = to_ascii_lowercase(t[i])

HasSign(s) == s # <<>> /\ s[1] \in {"+", "-"}
StripSign(s) == IF HasSign(s) THEN Tail(s) ELSE s
SignOf(s) == IF s # <<>> /\ s[1] = "-" THEN -1 ELSE 1

\* index of the first character of s that is in cs, 0 when there is none
FirstIndex(s, cs) ==
    IF \E i \in 1..Len(s) : s[i] \in cs
    THEN CHOOSE i \in 1..Len(s) : s[i] \in cs /\ \A j \in 1..(i - 1) : s[j] \notin cs
    ELSE 0

Ok(v) == [ok |-> TRUE, v |-> v]
Err == [ok |-> FALSE, v |-> 0]

\* value.parse::<i64>(): an optional sign and one or more digits.  The literals
\* of the model have few digits, so the overflow error is not modelled.
parse_i64(s) ==
    LET body == StripSign(s)
    IN  IF body # <<>> /\ AllDigits(body)
        THEN Ok(SignOf(s) * DecimalValue(body))
        ELSE Err

\* value.parse::<f64>(): an optional sign, then digits with an optional '.'
\* (at least one digit) and an optional exponent, or else one of inf,
\* infinity, nan in any case.
parse_f64(s) ==
    LET body == StripSign(s)
        e == FirstIndex(body, {"e", "E"})
        mant == IF e = 0 THEN body ELSE SubSeq(body, 1, e - 1)
        expo == IF e = 0 THEN <<>> ELSE SubSeq(body, e + 1, Len(body))
        dot == FirstIndex(mant, {"."})
        ip == IF dot = 0 THEN mant ELSE SubSeq(mant, 1, dot - 1)
        fp == IF dot = 0 THEN <<>> ELSE SubSeq(mant, dot + 1, Len(mant))
        number == /\ AllDigits(ip)
                  /\ AllDigits(fp)
                  /\ Len(ip) + Len(fp) >= 1
                  /\ e # 0 => (StripSign(expo) # <<>> /\ AllDigits(StripSign(expo)))
        scale == SignOf(expo) * DecimalValue(StripSign(expo)) - Len(fp)
        digits == SignOf(s) * DecimalValue(ip \o fp)
    IN  IF body = <<>> THEN Err
        ELSE IF number
             THEN Ok(IF scale >= 0 THEN Fin(digits * Pow10(scale), 1)
                     ELSE Fin(digits, Pow10(-scale)))
        ELSE IF eq_ignore_ascii_case(body, <<"n", "a", "n">>) THEN Ok(NaN)
        ELSE IF \/ eq_ignore_ascii_case(body, <<"i", "n", "f">>)
                \/ eq_ignore_ascii_case(body, <<"i", "n", "f", "i", "n", "i", "t", "y">>)
             THEN Ok(Inf(SignOf(s)))
        ELSE Err

infer_type(value) ==
    IF parse_i64(value).ok THEN "integer"
    ELSE IF parse_f64(value).ok THEN "float"
    ELSE IF \/ eq_ignore_ascii_case(value, <<"t", "r", "u", "e">>)
            \/ eq_ignore_ascii_case(value, <<"f", "a", "l", "s", "e">>)
         THEN "boolean"
    ELSE "string"

(***************************************************************************)
(* Option<T>: None is the empty sequence, Some(x) the sequence <<x>>.      *)
(***************************************************************************)
None == <<>>
Some(x) == <<x>>
IsSome(o) == o # None
Unwrap(o) == o[1]

(***************************************************************************)
(* f64::sqrt, carried by its radicand.                                     *)
(***************************************************************************)
f64_sqrt(r) == [radicand |-> r]

\* sqrt(r) > 0.0
SqrtIsPositive(s) == ~IsNaN(s.radicand) /\ Sign(s.radicand) > 0

\* a / sqrt(r) >= c, for a = |..| (never negative), sqrt(r) > 0 and a whole c > 0
QuotientAtLeast(a, s, c) ==
    IF IsNaN(a) THEN FALSE
    ELSE IF s.radicand.k = "inf" THEN FALSE
    ELSE IF a.k = "inf" THEN TRUE
    ELSE FLe(FMul(FromInt(c * c), s.radicand), FMul(a, a))

(***************************************************************************)
(* The cell values a file may hold.                                        *)
(***************************************************************************)
Empty == <<>>
\* mixed content: empty, text, a boolean, integers, non-finite floats
Values ==
    { Empty, <<"x">>, <<"T", "r", "u", "e">>, <<"1">>, <<"2">>, <<"9">>,
      <<"i", "n", "f">>, <<"N", "a", "N">> }
\* purely numeric content
NumericValues == { <<"1">>, <<"2">>, <<"3">>, <<"4">>, <<"1", "0", "0">> }
\* content without any number: empty, text, a boolean
CategoricalValues == { Empty, <<"a">>, <<"b">>, <<"c">>, <<"f", "a", "l", "s", "e">> }
\* numbers with gaps: empty, integers, a float
SparseValues == { Empty, <<"5">>, <<"6">>, <<"2", ".", "5">> }

(***************************************************************************)
(* ColumnStats.                                                            *)
(***************************************************************************)
ColumnStats_new(name, kind) ==
    [ name |-> name, kind |-> kind, total |-> 0, missing |-> 0,
      min |-> None, max |-> None, mean |-> Zero, m2 |-> Zero,
      uniques |-> {}, numeric_parse_failures |-> 0, outlier_count |-> 0 ]

\* the branch ColumnStats::update takes for value on self
IsMissing(value) == value = Empty
Folds(self, value) == ~IsMissing(value) /\ self.kind = "Numeric" /\ parse_f64(value).ok
Fails(self, value) == ~IsMissing(value) /\ self.kind = "Numeric" /\ ~parse_f64(value).ok
Inserts(self, value) == ~IsMissing(value) /\ self.kind = "Categorical"

\* previous_count that forgets the missing values
previous_count_with_missing(self) == self.total - 1

\* let previous_count = self.total - self.missing - 1 (total already incremented)
previous_count(self) == self.total - self.missing - 1

\* is_outlier with a threshold of 3 standard deviations
is_outlier_three_sigma(self, x) ==
    /\ previous_count(self) >= 2
    /\ LET prev_stddev == f64_sqrt(FDivCount(self.m2, previous_count(self) - 1))
       IN  /\ SqrtIsPositive(prev_stddev)
           /\ QuotientAtLeast(FAbs(FSub(x, self.mean)), prev_stddev, 3)

\* the z-score test made before x is folded
is_outlier(self, x) ==
    /\ previous_count(self) >= 2
    /\ LET prev_stddev == f64_sqrt(FDivCount(self.m2, previous_count(self) - 1))
       IN  /\ SqrtIsPositive(prev_stddev)
           /\ QuotientAtLeast(FAbs(FSub(x, self.mean)), prev_stddev, 5)

flag_outlier(self, x) ==
    IF is_outlier(self, x) THEN [self EXCEPT !.outlier_count = @ + 1] ELSE self

\* let count = previous_count + 1: the divisor of the fold
fold_count(self) == previous_count(self) + 1

\* welford with the squared delta in place of delta * (x - new mean)
welford_delta_squared(self, x) ==
    LET delta == FSub(x, self.mean)
    IN  [self EXCEPT !.mean = FAdd(self.mean, FDivCount(delta, fold_count(self))),
                     !.m2 = FAdd(self.m2, FMul(delta, delta))]

welford(self, x) ==
    LET count == fold_count(self)
        delta == FSub(x, self.mean)
        mean == FAdd(self.mean, FDivCount(delta, count))
    IN  [self EXCEPT !.mean = mean,
                     !.m2 = FAdd(self.m2, FMul(delta, FSub(x, mean)))]

min_max(self, x) ==
    [self EXCEPT !.min = Some(IF IsSome(self.min) THEN FMin(Unwrap(self.min), x) ELSE x),
                 !.max = Some(IF IsSome(self.max) THEN FMax(Unwrap(self.max), x) ELSE x)]

\* count_missing for a total that counts only the non-empty values
count_missing_not_in_total(self) == [self EXCEPT !.missing = @ + 1, !.total = @ - 1]

count_missing(self) == [self EXCEPT !.missing = @ + 1]

\* count_parse_failure that sends the column back to Categorical
count_parse_failure_demotes(self) ==
    [self EXCEPT !.numeric_parse_failures = @ + 1, !.kind = "Categorical"]

\* count_parse_failure that counts the value as missing too
count_parse_failure_as_missing(self) ==
    [self EXCEPT !.numeric_parse_failures = @ + 1, !.missing = @ + 1]

\* count_parse_failure that also folds the value as 0.0
count_parse_failure_folds_zero(self) ==
    [self EXCEPT !.numeric_parse_failures = @ + 1,
                 !.mean = FAdd(self.mean, FDivCount(FNeg(self.mean), self.total - self.missing)),
                 !.min = Some(IF IsSome(self.min) THEN FMin(Unwrap(self.min), Zero) ELSE Zero),
                 !.max = Some(IF IsSome(self.max) THEN FMax(Unwrap(self.max), Zero) ELSE Zero)]

count_parse_failure(self) == [self EXCEPT !.numeric_parse_failures = @ + 1]

\* insert_unique that keeps only the value just seen
insert_unique_replaces(self, value) == [self EXCEPT !.uniques = {value}]

insert_unique(self, value) == [self EXCEPT !.uniques = @ \cup {value}]

\* self.total += 1
count_total(self) == [self EXCEPT !.total = @ + 1]

update(self0, value) ==
    LET self == count_total(self0)
    IN  IF IsMissing(value) THEN count_missing(self)
        ELSE IF self.kind = "Numeric"
             THEN IF parse_f64(value).ok
                  THEN LET x == parse_f64(value).v
                       IN  min_max(welford(flag_outlier(self, x), x), x)
                  ELSE count_parse_failure(self)
        ELSE insert_unique(self, value)

stddev(self) ==
    LET count == self.total - self.missing
    IN  IF count > 1 THEN Some(f64_sqrt(FDivCount(self.m2, count - 1))) ELSE None

(***************************************************************************)
(* inspect_csv: one pass over the records, cell by cell.                   *)
(***************************************************************************)
\* IsNumericText that takes a boolean for a number
IsNumericText_or_boolean(value) == infer_type(value) \in {"integer", "float", "boolean"}

IsNumericText(value) == infer_type(value) \in {"integer", "float"}

\* the kind a column is created with, from the first value seen for it
initial_kind(value) ==
    IF IsMissing(value) THEN "Categorical"
    ELSE IF IsNumericText(value) THEN "Numeric" ELSE "Categorical"

label(kind) == IF kind = "Numeric" THEN "numeric" ELSE "categorical"

\* whether value upgrades the column to Numeric before its update
promotes(stats, value) ==
    stats.kind = "Categorical" /\ ~IsMissing(value) /\ IsNumericText(value)

\* promote that keeps the unique values
promote_keeps_uniques(stats) == [stats EXCEPT !.kind = "Numeric"]

promote(stats) == [stats EXCEPT !.kind = "Numeric", !.uniques = {}]

VARIABLES
    col_count,      \* headers.len()
    row_count,      \* records read so far
    col,            \* cells of the current record already processed
    inferred,       \* per column: None or Some(type label)
    column_stats,   \* per column: None or Some(ColumnStats)
    hist,           \* per column, history: what update did with each value
    report          \* None while records are read, then Some(what was printed)

vars == <<col_count, row_count, col, inferred, column_stats, hist, report>>

\* History of one column:
\*   fed        the values passed to update, in order
\*   folded     the parsed values folded into the moments, in order
\*   divisors   the count each of them was folded with
\*   flagged    the positions in folded whose update incremented outlier_count
\*   inserted   how many values went to uniques
\*   promoted   the positions in fed whose value upgraded the column
NoHistory ==
    [ fed |-> <<>>, folded |-> <<>>, divisors |-> <<>>, flagged |-> {},
      inserted |-> 0, promoted |-> {} ]

\* h extended by one cell: stats is the profile update is called on
\* (after creation and promotion), upgraded whether value promoted it
Record(h, stats, upgraded, value) ==
    LET x == parse_f64(value).v
        folds == Folds(stats, value)
    IN  [ fed |-> Append(h.fed, value),
          folded |-> IF folds THEN Append(h.folded, x) ELSE h.folded,
          divisors |-> IF folds THEN Append(h.divisors, fold_count(count_total(stats)))
                       ELSE h.divisors,
          flagged |-> IF folds /\ update(stats, value).outlier_count > stats.outlier_count
                      THEN h.flagged \cup {Len(h.folded) + 1}
                      ELSE h.flagged,
          inserted |-> IF Inserts(stats, value) THEN h.inserted + 1 ELSE h.inserted,
          promoted |-> IF upgraded THEN h.promoted \cup {Len(h.fed) + 1} ELSE h.promoted ]

Columns == 1..col_count

Init ==
    /\ col_count \in 1..MaxCols
    /\ row_count = 0
    /\ col = col_count
    /\ inferred = [i \in 1..col_count |-> None]
    /\ column_stats = [i \in 1..col_count |-> None]
    /\ hist = [i \in 1..col_count |-> NoHistory]
    /\ report = None

\* reader.records() yields the next record: row_count += 1
ReadRecord(max_cells) ==
    /\ report = None
    /\ col = col_count
    /\ (row_count + 1) * col_count <= max_cells
    /\ row_count' = row_count + 1
    /\ col' = 0
    /\ UNCHANGED <<col_count, inferred, column_stats, hist, report>>

\* materialize that starts a new profile when the value promotes the column
materialize_anew_on_promotion(i, value) ==
    IF inferred[i] = None \/ promotes(Unwrap(column_stats[i]), value)
    THEN ColumnStats_new(i, initial_kind(value))
    ELSE Unwrap(column_stats[i])

\* the profile of column i when value arrives: created on the first visit
materialize(i, value) ==
    IF inferred[i] = None THEN ColumnStats_new(i, initial_kind(value))
    ELSE Unwrap(column_stats[i])

\* relabel that leaves the label of a promoted column as it was
relabel_only_once(i, value) ==
    IF inferred[i] = None THEN label(initial_kind(value)) ELSE Unwrap(inferred[i])

\* the label of column i after value was looked at
relabel(i, value) ==
    IF promotes(materialize(i, value), value) THEN "numeric"
    ELSE IF inferred[i] = None THEN label(initial_kind(value))
    ELSE Unwrap(inferred[i])

\* one iteration of `for (i, value) in record.iter().enumerate()`
ProcessCell(value) ==
    /\ col < col_count
    /\ LET i == col + 1
           created == materialize(i, value)
           upgraded == promotes(created, value)
           stats == IF upgraded THEN promote(created) ELSE created
       IN  /\ inferred' = [inferred EXCEPT ![i] = Some(relabel(i, value))]
           /\ column_stats' = [column_stats EXCEPT ![i] = Some(update(stats, value))]
           /\ hist' = [hist EXCEPT ![i] = Record(@, stats, upgraded, value)]
    /\ col' = col + 1
    /\ UNCHANGED <<col_count, row_count, report>>

(***************************************************************************)
(* The report printed once the records are exhausted.  Ratios are exact:   *)
(* a / b > p / q is decided on the fractions.                              *)
(***************************************************************************)
Line(text, args) == [text |-> text, args |-> args]

\* (ratio * 100.0).round() as usize, for ratio = a / b >= 0
RoundedPercent(a, b) == (200 * a + b) \div (2 * b)

\* ratio * 100.0 printed with {:.1}, in tenths, for ratio = a / b >= 0
\* (a tie goes to the even digit)
PercentTenths(a, b) ==
    LET q == (1000 * a) \div b
        r == (1000 * a) % b
    IN  IF 2 * r > b \/ (2 * r = b /\ q % 2 = 1) THEN q + 1 ELSE q

\* a < 10^(-e) for a finite a >= 0
RECURSIVE BelowPow10Neg(_, _)
BelowPow10Neg(a, e) ==
    IF a.n >= a.d THEN FALSE
    ELSE IF e = 0 THEN TRUE
    ELSE BelowPow10Neg(Fin(10 * a.n, a.d), e - 1)

\* (max - min).abs() < 1e-12
near_constant(min, max) ==
    LET d == FAbs(FSub(max, min))
    IN  IsFinite(d) /\ BelowPow10Neg(d, 12)

\* if missing_ratio > 0.05 { warnings.push("! missing values: ..%") }
missing_warning(stats, total_rows) ==
    IF 20 * stats.missing > total_rows
    THEN <<Line("! missing values: {}%", <<RoundedPercent(stats.missing, total_rows)>>)>>
    ELSE <<>>

\* the Categorical arm; total_rows - stats.missing is an unsigned subtraction:
\* below zero it panics with overflow checks and wraps to a huge count without
cardinality_warning(stats, total_rows, overflow_checks) ==
    LET non_missing == total_rows - stats.missing
        uniques == Cardinality(stats.uniques)
    IN  IF non_missing < 0
        THEN (IF overflow_checks THEN <<Line("panic: attempt to subtract with overflow", <<>>)>>
              ELSE <<>>)
        ELSE IF non_missing > 0 /\ 100 * uniques > 95 * non_missing
             THEN <<Line("! high cardinality: {:.1}% unique (likely identifier)",
                         <<PercentTenths(uniques, non_missing)>>)>>
        ELSE <<>>

constant_warning(stats) ==
    IF IsSome(stats.min) /\ IsSome(stats.max)
       /\ near_constant(Unwrap(stats.min), Unwrap(stats.max))
    THEN <<Line("! near-constant numeric column", <<>>)>>
    ELSE <<>>

mixed_warning(stats) ==
    IF stats.numeric_parse_failures > 0
    THEN <<Line("! mixed numeric and non-numeric values", <<>>)>>
    ELSE <<>>

outlier_warning(stats) ==
    IF stats.outlier_count > 0
    THEN <<Line("! extreme outliers detected: {} values >= 5 sigma", <<stats.outlier_count>>)>>
    ELSE <<>>

\* warnings with the mixed-type rule ahead of the near-constant rule
warnings_mixed_first(stats, total_rows, overflow_checks) ==
    missing_warning(stats, total_rows)
    \o (IF stats.kind = "Categorical"
        THEN cardinality_warning(stats, total_rows, overflow_checks)
        ELSE mixed_warning(stats) \o constant_warning(stats) \o outlier_warning(stats))

\* the warnings vector of diagnose_column
warnings(stats, total_rows, overflow_checks) ==
    missing_warning(stats, total_rows)
    \o (IF stats.kind = "Categorical"
        THEN cardinality_warning(stats, total_rows, overflow_checks)
        ELSE constant_warning(stats) \o mixed_warning(stats) \o outlier_warning(stats))

\* the lines diagnose_column prints
diagnose_column(stats, total_rows, overflow_checks) ==
    LET w == warnings(stats, total_rows, overflow_checks)
    IN  IF w = <<>> THEN <<Line("ok", <<>>)>> ELSE w

\* the line of the summary for one column: none for a Numeric column without
\* a non-missing value; unwrap of an absent min or max panics
summary_lines(stats) ==
    LET count == stats.total - stats.missing
    IN  IF stats.kind = "Numeric"
        THEN IF count > 0
             THEN IF IsSome(stats.min) /\ IsSome(stats.max)
                  THEN <<[ text |-> "numeric", name |-> stats.name, count |-> count,
                           missing |-> stats.missing, min |-> Unwrap(stats.min),
                           max |-> Unwrap(stats.max), mean |-> stats.mean,
                           stddev |-> IF IsSome(stddev(stats)) THEN Unwrap(stddev(stats))
                                      ELSE f64_sqrt(Zero) ]>>
                  ELSE <<[text |-> "panic: called Option::unwrap() on a None value"]>>
             ELSE <<>>
        ELSE <<[ text |-> "categorical", name |-> stats.name, count |-> count,
                 missing |-> stats.missing, unique |-> Cardinality(stats.uniques) ]>>

\* column_stats.iter().flatten(): the profiles that exist, in column order
Profiles == SelectSeq([i \in 1..col_count |-> column_stats[i]], IsSome)

print_summary == [j \in 1..Len(Profiles) |-> summary_lines(Unwrap(Profiles[j]))]

Panics(lines) == \E n \in 1..Len(lines) : lines[n].text \in
    {"panic: called Option::unwrap() on a None value", "panic: attempt to subtract with overflow"}

print_diagnosis(overflow_checks) ==
    [j \in 1..Len(Profiles) |->
        [ name |-> Unwrap(Profiles[j]).name, kind |-> Unwrap(Profiles[j]).kind,
          lines |-> diagnose_column(Unwrap(Profiles[j]), row_count, overflow_checks) ]]

\* the records are exhausted: the summary (--summary) and the data quality
\* report (--diagnose) are printed; a panic in the summary ends the run
Report(show_summary, show_diagnose, overflow_checks) ==
    /\ report = None
    /\ col = col_count
    /\ LET summary == IF show_summary THEN print_summary ELSE <<>>
           aborted == \E j \in 1..Len(summary) : Panics(summary[j])
       IN  report' = Some([ rows |-> row_count,
                            summary |-> summary,
                            diagnosis |-> IF show_diagnose /\ ~aborted
                                          THEN print_diagnosis(overflow_checks)
                                          ELSE <<>> ])
    /\ UNCHANGED <<col_count, row_count, col, inferred, column_stats, hist>>

\* the end of the file of a run with --summary --diagnose (without them
\* nothing is computed), in either build
Finish == \E overflow_checks \in BOOLEAN : Report(TRUE, TRUE, overflow_checks)

Next ==
    \/ ReadRecord(MaxCells)
    \/ \E value \in Values : ProcessCell(value)
    \/ Finish

Spec == Init /\ [][Next]_vars

\* the pass over the records alone, of a file whose cells are all numeric
NextNumeric ==
    \/ ReadRecord(MaxNumericCells)
    \/ \E value \in NumericValues : ProcessCell(value)

SpecNumeric == Init /\ [][NextNumeric]_vars

\* the pass over the records alone, of a file without any numeric cell
NextCategorical ==
    \/ ReadRecord(MaxCategoricalCells)
    \/ \E value \in CategoricalValues : ProcessCell(value)

SpecCategorical == Init /\ [][NextCategorical]_vars

\* the pass over the records alone, of a file of numbers and empty cells
NextSparse ==
    \/ ReadRecord(MaxSparseCells)
    \/ \E value \in SparseValues : ProcessCell(value)

SpecSparse == Init /\ [][NextSparse]_vars

(***************************************************************************)
(* Properties.                                                             *)
(***************************************************************************)
Profiled == {i \in Columns : IsSome(column_stats[i])}
Stats(i) == Unwrap(column_stats[i])

\* number of values folded into the moments of column i
FoldedCount(i) == Len(hist[i].folded)

\* the text of the cell values used below
One == <<"1">>
Two == <<"2">>
Three == <<"3">>
Four == <<"4">>
Hundred == <<"1", "0", "0">>
Text == <<"x">>
Bool == <<"T", "r", "u", "e">>

\* C1: every fold divides by 1 + the number of values folded before it: the
\* j-th value folded into a column is folded with count j.
C1_DivisorIsFoldedCount ==
    \A i \in Profiled : \A j \in 1..FoldedCount(i) : hist[i].divisors[j] = j

\* C2: right after the update of a value that promoted a column which had
\* taken categorical values, the numeric state is that of the single sample
\* x: mean = x, m2 = 0, min = max = x, folded with count 1.
C2_PromotingValueIsFirstSample ==
    \A i \in Profiled :
        (Len(hist[i].fed) \in hist[i].promoted /\ hist[i].inserted >= 1)
        => LET x == parse_f64(hist[i].fed[Len(hist[i].fed)]).v
           IN  /\ hist[i].folded = <<x>>
               /\ hist[i].divisors = <<1>>
               /\ Stats(i).mean = x
               /\ Stats(i).m2 = Zero
               /\ Stats(i).min = Some(x)
               /\ Stats(i).max = Some(x)

\* C3: the update folding the 1st or the 2nd numeric sample of a column never
\* increments outlier_count.
C3_NoOutlierOnFirstTwoSamples ==
    \A i \in Profiled : hist[i].flagged \cap {1, 2} = {}

RECURSIVE SumSeq(_)
SumSeq(xs) == IF xs = <<>> THEN Zero ELSE FAdd(xs[1], SumSeq(Tail(xs)))

\* two-pass reference statistics of a non-empty sequence of finite values
RefMean(xs) == FDivCount(SumSeq(xs), Len(xs))
RefM2(xs) ==
    LET m == RefMean(xs)
        sq(x) == FMul(FSub(x, m), FSub(x, m))
    IN  SumSeq([j \in 1..Len(xs) |-> sq(xs[j])])
RefMin(xs) == CHOOSE m \in {xs[j] : j \in 1..Len(xs)} : \A j \in 1..Len(xs) : FLe(m, xs[j])
RefMax(xs) == CHOOSE m \in {xs[j] : j \in 1..Len(xs)} : \A j \in 1..Len(xs) : FLe(xs[j], m)
RefStddev(xs) ==
    IF Len(xs) > 1 THEN Some(f64_sqrt(FDivCount(RefM2(xs), Len(xs) - 1))) ELSE None

\* the values of column i as numbers, when all of them are integer literals
AllIntegers(i) == \A j \in 1..Len(hist[i].fed) : parse_i64(hist[i].fed[j]).ok
Numbers(i) == [j \in 1..Len(hist[i].fed) |-> parse_f64(hist[i].fed[j]).v]

\* C4: a column fed only integer-valued numeric text has mean, m2, stddev(),
\* min and max equal to the two-pass reference over its values.
C4_MatchesTwoPassReference ==
    \A i \in Profiled :
        AllIntegers(i)
        => LET xs == hist[i].folded
           IN  /\ xs = Numbers(i)
               /\ Stats(i).mean = RefMean(xs)
               /\ Stats(i).m2 = RefM2(xs)
               /\ stddev(Stats(i)) = RefStddev(xs)
               /\ Stats(i).min = Some(RefMin(xs))
               /\ Stats(i).max = Some(RefMax(xs))

\* witness of C4: the column 1,2,3,4,100 with min 1, max 100, mean 22
C4_Witness ==
    \E i \in Profiled :
        /\ hist[i].fed = <<One, Two, Three, Four, Hundred>>
        /\ Stats(i).min = Some(FromInt(1))
        /\ Stats(i).max = Some(FromInt(100))
        /\ Stats(i).mean = FromInt(22)
        /\ IsSome(stddev(Stats(i)))

\* C5: stddev() is present exactly when more than one value was folded, and
\* then it is sqrt(m2 / (folded count - 1)).
C5_StddevNeedsTwoFolded ==
    \A i \in Profiled :
        stddev(Stats(i)) =
            IF FoldedCount(i) > 1
            THEN Some(f64_sqrt(FDivCount(Stats(i).m2, FoldedCount(i) - 1)))
            ELSE None

\* C6: a Numeric column stays Numeric; a column's kind changes only from
\* Categorical to Numeric, and at most once.
C6_PromotionOneWay ==
    [][\A i \in Profiled :
          /\ Stats(i).kind = "Numeric" => column_stats'[i][1].kind = "Numeric"
          /\ column_stats'[i][1].kind # Stats(i).kind
             => /\ Stats(i).kind = "Categorical"
                /\ hist[i].promoted = {}
                /\ Cardinality(hist'[i].promoted) = 1]_vars

\* witness of C6: a promoted column that then took text, a boolean or an
\* empty value and is Numeric
C6_Witness ==
    \E i \in Profiled :
        /\ Stats(i).kind = "Numeric"
        /\ \E j \in hist[i].promoted :
              /\ j > 1
              /\ j < Len(hist[i].fed)
              /\ \A n \in (j + 1)..Len(hist[i].fed) :
                    hist[i].fed[n] \in {Empty, Text, Bool}

EmptyCount(i) == Cardinality({j \in 1..Len(hist[i].fed) : hist[i].fed[j] = Empty})

\* C7: missing is the number of updates whose value was empty.
C7_MissingCountsEmpties ==
    \A i \in Profiled : Stats(i).missing = EmptyCount(i)

\* witness of C7: empty values next to a parse failure and a categorical value
C7_Witness ==
    \E i \in Profiled :
        /\ Stats(i).missing >= 1
        /\ Stats(i).numeric_parse_failures >= 1
        /\ hist[i].inserted >= 1

\* the four counts a value can go to
Counts(st, h) ==
    <<st.missing, Len(h.folded), st.numeric_parse_failures, h.inserted>>

\* C8: total = missing + folded + numeric_parse_failures + inserted, and an
\* update adds 1 to total and 1 to exactly one of the four counts.
C8_TotalPartition ==
    [][\A i \in 1..col_count :
          hist'[i] # hist[i]
          => LET old == IF IsSome(column_stats[i]) THEN Stats(i)
                        ELSE ColumnStats_new(i, "Categorical")
                 new == column_stats'[i][1]
                 c == Counts(old, hist[i])
                 d == Counts(new, hist'[i])
             IN  /\ new.total = old.total + 1
                 /\ new.total = d[1] + d[2] + d[3] + d[4]
                 /\ \E n \in 1..4 :
                       /\ d[n] = c[n] + 1
                       /\ \A m \in (1..4) \ {n} : d[m] = c[m]]_vars

\* witness of C8: a column with one value in each of the four counts
C8_Witness ==
    \E i \in Profiled :
        /\ Counts(Stats(i), hist[i]) = <<1, 1, 1, 1>>
        /\ Stats(i).total = 4

\* C9: m2 >= 0.
C9_M2NonNegative ==
    \A i \in Profiled : FLe(Zero, Stats(i).m2)

\* C10: min and max are both absent, or both present with min <= max, the
\* smallest and the largest of the values folded.
C10_MinMaxOfFolded ==
    \A i \in Profiled :
        IF FoldedCount(i) = 0
        THEN Stats(i).min = None /\ Stats(i).max = None
        ELSE /\ IsSome(Stats(i).min)
             /\ IsSome(Stats(i).max)
             /\ FLe(Unwrap(Stats(i).min), Unwrap(Stats(i).max))
             /\ \A j \in 1..FoldedCount(i) :
                   /\ FLe(Unwrap(Stats(i).min), hist[i].folded[j])
                   /\ FLe(hist[i].folded[j], Unwrap(Stats(i).max))
             /\ \E j \in 1..FoldedCount(i) : hist[i].folded[j] = Unwrap(Stats(i).min)
             /\ \E j \in 1..FoldedCount(i) : hist[i].folded[j] = Unwrap(Stats(i).max)

\* the distinct non-empty values fed to column i
DistinctFed(i) == {hist[i].fed[j] : j \in 1..Len(hist[i].fed)} \ {Empty}

\* C11: a column that was never promoted holds in uniques exactly the distinct
\* non-empty values fed to it, whatever their order (and counts its empties).
C11_UniquesAreDistinctValues ==
    \A i \in Profiled :
        Stats(i).kind = "Categorical"
        => /\ Stats(i).uniques = DistinctFed(i)
           /\ Cardinality(Stats(i).uniques) = Cardinality(DistinctFed(i))
           /\ Stats(i).missing = EmptyCount(i)

\* witness of C11: the column a, b, '', c, a with missing 1 and uniques {a, b, c}
C11_Witness ==
    \E i \in Profiled :
        /\ hist[i].fed = <<<<"a">>, <<"b">>, Empty, <<"c">>, <<"a">>>>
        /\ Stats(i).kind = "Categorical"
        /\ Stats(i).missing = 1
        /\ Stats(i).uniques = {<<"a">>, <<"b">>, <<"c">>}

\* the number of empty values column i starts with
LeadingEmpties(i) ==
    Cardinality({j \in 1..Len(hist[i].fed) : \A n \in 1..j : hist[i].fed[n] = Empty})

\* column i is k >= 1 empty values followed by numeric values only
EmptiesThenNumbers(i) ==
    /\ LeadingEmpties(i) >= 1
    /\ \A j \in (LeadingEmpties(i) + 1)..Len(hist[i].fed) : IsNumericText(hist[i].fed[j])

\* the numeric values of such a column, in order
NumbersAfterEmpties(i) ==
    [j \in 1..(Len(hist[i].fed) - LeadingEmpties(i)) |->
        parse_f64(hist[i].fed[LeadingEmpties(i) + j]).v]

\* C12: a column of k >= 1 empty values followed by numbers is Categorical
\* until its first number, which promotes it; missing = k, and mean, min and
\* max are those of the numbers alone.
C12_EmptiesThenNumbers ==
    \A i \in Profiled :
        EmptiesThenNumbers(i)
        => LET k == LeadingEmpties(i)
               xs == hist[i].folded
           IN  /\ Stats(i).missing = k
               /\ IF Len(hist[i].fed) = k
                  THEN /\ Stats(i).kind = "Categorical"
                       /\ hist[i].promoted = {}
                  ELSE /\ Stats(i).kind = "Numeric"
                       /\ hist[i].promoted = {k + 1}
                       /\ xs = NumbersAfterEmpties(i)
                       /\ Stats(i).mean = RefMean(xs)
                       /\ Stats(i).min = Some(RefMin(xs))
                       /\ Stats(i).max = Some(RefMax(xs))

\* witness of C12: the column '', '', 5, 6: Numeric, missing 2, min 5, max 6,
\* mean 5.5
C12_Witness ==
    \E i \in Profiled :
        /\ hist[i].fed = <<Empty, Empty, <<"5">>, <<"6">>>>
        /\ Stats(i).kind = "Numeric"
        /\ hist[i].promoted = {3}
        /\ Stats(i).missing = 2
        /\ Stats(i).min = Some(FromInt(5))
        /\ Stats(i).max = Some(FromInt(6))
        /\ Stats(i).mean = Fin(11, 2)

\* the profile of the j-th entry of the report
Reported(j) == Unwrap(Profiles[j])
Diagnosis == Unwrap(report).diagnosis
Texts(lines) == [n \in 1..Len(lines) |-> lines[n].text]
When(cond, text) == IF cond THEN <<text>> ELSE <<>>

\* the warnings the rules call for, in rule order.  A nonzero difference of
\* two values of the model is never below 1e-12, so rule 3a asks for a
\* finite difference of zero.
ExpectedWarnings(st, rows) ==
    When(FLt(Fin(5, 100), Fin(st.missing, rows)), "! missing values: {}%")
    \o (IF st.kind = "Categorical"
        THEN When(rows - st.missing > 0
                  /\ FLt(Fin(95, 100), Fin(Cardinality(st.uniques), rows - st.missing)),
                  "! high cardinality: {:.1}% unique (likely identifier)")
        ELSE When(/\ IsSome(st.min)
                  /\ IsSome(st.max)
                  /\ FSub(Unwrap(st.max), Unwrap(st.min)) = Zero,
                  "! near-constant numeric column")
             \o When(st.numeric_parse_failures > 0, "! mixed numeric and non-numeric values")
             \o When(st.outlier_count > 0,
                     "! extreme outliers detected: {} values >= 5 sigma"))

\* C13: diagnose_column prints the warnings whose rule holds, in the order
\* missing values, high cardinality (Categorical) or near-constant, mixed,
\* outliers (Numeric), and prints ok exactly when there is none.
C13_DiagnosisFollowsRules ==
    IsSome(report)
    => \A j \in 1..Len(Diagnosis) :
          LET expected == ExpectedWarnings(Reported(j), row_count)
          IN  Texts(Diagnosis[j].lines) = IF expected = <<>> THEN <<"ok">> ELSE expected

\* witness of C13: the column 1, x, 2 is reported with the mixed warning alone
C13_Witness ==
    /\ IsSome(report)
    /\ \E j \in 1..Len(Diagnosis) :
          /\ hist[Reported(j).name].fed = <<One, Text, Two>>
          /\ Texts(Diagnosis[j].lines) = <<"! mixed numeric and non-numeric values">>

\* C14: a Numeric column has no unique values, and a column that stays
\* Categorical never loses one.
C14_UniquesDiscardedOnPromotion ==
    [][\A i \in 1..col_count :
          IsSome(column_stats'[i])
          => /\ column_stats'[i][1].kind = "Numeric" => column_stats'[i][1].uniques = {}
             /\ (IsSome(column_stats[i]) /\ column_stats'[i][1].kind = "Categorical")
                => Stats(i).uniques \subseteq column_stats'[i][1].uniques]_vars

\* witness of C14: a column promoted after it had taken categorical values,
\* with no unique value left
C14_Witness ==
    \E i \in Profiled :
        /\ Stats(i).kind = "Numeric"
        /\ hist[i].promoted # {}
        /\ hist[i].inserted >= 2
        /\ Stats(i).uniques = {}

\* the value of the last update of column i
LastFed(h) == h.fed[Len(h.fed)]

\* C15: an update of a Numeric column with a non-empty value that is no
\* number adds 1 to total and to numeric_parse_failures and changes nothing
\* else of the profile.
C15_ParseFailureOnlyCounted ==
    [][\A i \in Profiled :
          (hist'[i] # hist[i] /\ Fails(Stats(i), LastFed(hist'[i])))
          => column_stats'[i][1] =
                [Stats(i) EXCEPT !.total = @ + 1, !.numeric_parse_failures = @ + 1]]_vars

\* witness of C15: a Numeric column with folded values whose last value
\* failed to parse
C15_Witness ==
    \E i \in Profiled :
        /\ Stats(i).kind = "Numeric"
        /\ FoldedCount(i) >= 2
        /\ LastFed(hist[i]) \in {Text, Bool}
        /\ Stats(i).numeric_parse_failures >= 1
        /\ Stats(i).mean # Zero

\* the k-th of the values xs is at least 5 sample standard deviations of the
\* first k - 1 values away from their mean, and that deviation is not 0
\* (compared on the squares: d ^ 2 >= 25 * variance)
FarFromPrefix(xs, k) ==
    /\ k >= 3
    /\ LET before == SubSeq(xs, 1, k - 1)
           variance == FDivCount(RefM2(before), k - 2)
           d == FSub(xs[k], RefMean(before))
       IN  /\ FLt(Zero, variance)
           /\ FLe(FMul(FromInt(25), variance), FMul(d, d))

\* C16: in a purely numeric column the update folding the k-th value
\* increments outlier_count exactly when k >= 3, the sample standard deviation
\* s of the first k - 1 values is > 0 and the value is >= 5 s away from their
\* mean.
C16_OutlierAgainstPriorValues ==
    \A i \in Profiled :
        AllIntegers(i)
        => /\ hist[i].folded = Numbers(i)
           /\ hist[i].flagged =
                 {k \in 1..FoldedCount(i) : FarFromPrefix(hist[i].folded, k)}
           /\ Stats(i).outlier_count = Cardinality(hist[i].flagged)

\* witness of C16: in 1,2,3,4,100 the value 100 is judged against mean 2.5
\* and m2 5 and is the one outlier
C16_Witness ==
    \E i \in Profiled :
        /\ hist[i].fed = <<One, Two, Three, Four, Hundred>>
        /\ RefMean(SubSeq(hist[i].folded, 1, 4)) = Fin(5, 2)
        /\ RefM2(SubSeq(hist[i].folded, 1, 4)) = FromInt(5)
        /\ hist[i].flagged = {5}
        /\ Stats(i).outlier_count = 1

Summary == Unwrap(report).summary

\* C17: a Numeric column has min and max (a value was folded), so the summary
\* never unwraps an absent min or max; a Categorical column has no min and
\* max, mean = 0, m2 = 0, no parse failure and no outlier.
C17_NumericHasMinMax ==
    /\ \A i \in Profiled :
          IF Stats(i).kind = "Numeric"
          THEN /\ FoldedCount(i) >= 1
               /\ IsSome(Stats(i).min)
               /\ IsSome(Stats(i).max)
          ELSE /\ Stats(i).min = None
               /\ Stats(i).max = None
               /\ Stats(i).mean = Zero
               /\ Stats(i).m2 = Zero
               /\ Stats(i).numeric_parse_failures = 0
               /\ Stats(i).outlier_count = 0
    /\ IsSome(report) => \A j \in 1..Len(Summary) : ~Panics(Summary[j])

\* witness of C17: a summary with the line of a Numeric column that took a
\* value that is no number, next to a Categorical column
C17_Witness ==
    /\ IsSome(report)
    /\ \E j, n \in 1..Len(Summary) :
          /\ Summary[j] # <<>>
          /\ Summary[j][1].text = "numeric"
          /\ Reported(j).numeric_parse_failures >= 1
          /\ Summary[n] # <<>>
          /\ Summary[n][1].text = "categorical"

\* C18: once N >= 1 records are ingested every column has a profile with
\* total = N = row_count, so missing <= total_rows in diagnose_column: its
\* subtraction does not go below zero and its division is by N >= 1.
C18_TotalIsRowCount ==
    /\ (col = col_count /\ row_count >= 1)
       => \A i \in Columns :
             /\ IsSome(column_stats[i])
             /\ Stats(i).total = row_count
             /\ Stats(i).missing <= row_count
    /\ IsSome(report)
       => /\ Len(Diagnosis) > 0 => row_count >= 1
          /\ \A j \in 1..Len(Diagnosis) : ~Panics(Diagnosis[j].lines)

\* witness of C18: a report over two records of two columns, one of them
\* Categorical with a missing value
C18_Witness ==
    /\ IsSome(report)
    /\ row_count = 2
    /\ Len(Diagnosis) = 2
    /\ \E j \in 1..2 :
          /\ Reported(j).kind = "Categorical"
          /\ Reported(j).missing = 1
          /\ Reported(j).total = 2

\* the label and the profile of column i agree
Agree(label_i, stats_i) ==
    /\ label_i = None <=> stats_i = None
    /\ IsSome(stats_i)
       => /\ Unwrap(label_i) = "numeric" <=> Unwrap(stats_i).kind = "Numeric"
          /\ Unwrap(label_i) = "categorical" <=> Unwrap(stats_i).kind = "Categorical"

\* C19: after every step each column's label agrees with its profile, and
\* the step of column i's cell leaves the other columns' profiles and labels
\* as they were.
C19_LabelsAgreeWithProfiles ==
    [][/\ \A i \in 1..col_count : Agree(inferred'[i], column_stats'[i])
       /\ \A i \in (1..col_count) \ {col + 1} :
             /\ column_stats'[i] = column_stats[i]
             /\ inferred'[i] = inferred[i]]_vars

\* witness of C19: after a full row, a column promoted to numeric next to a
\* column that is categorical
C19_Witness ==
    /\ col = col_count
    /\ \E i, n \in Profiled :
          /\ hist[i].promoted # {}
          /\ hist[i].inserted >= 1
          /\ inferred[i] = Some("numeric")
          /\ inferred[n] = Some("categorical")
          /\ Stats(n).kind = "Categorical"

====
